---- MODULE Spec2Model ----
(***************************************************************************)
(* A model of sqlalchemy/orm/properties.py: ColumnProperty construction,   *)
(* copy() and merge(), and the memoized fields of ColumnProperty.          *)
(* Comparator.                                                             *)
(***************************************************************************)
EXTENDS Integers, Sequences, FiniteSets, TLC

VARIABLES
    prop,             \* the object the last constructor / copy() call returned, or Null
    last,             \* what the last call was, with its arguments and its outcome
    _creation_order,  \* the process-wide counter util.set_creation_order draws from
    created,          \* the _creation_order of every property constructed so far, in order
    merge_prop,       \* the property merge() is called on: its key and its instrument flag
    dest_dict,        \* the destination object's value map
    dest_state,       \* the destination object's InstanceState
    calls,            \* the calls the last merge() made on the destination, in order
    merged,           \* the arguments of the last merge() and the destination before it
    cmp,              \* a Comparator: its property, adapter, parent entity and memo slots
    computed,         \* how many times each memoized field of cmp has been computed
    first,            \* the value each memoized field of cmp had when first computed
    returned          \* the last call made on cmp and the value it returned

propVars == <<prop, last, _creation_order, created>>
mergeVars == <<merge_prop, dest_dict, dest_state, calls, merged>>
cmpVars == <<cmp, computed, first, returned>>
vars == <<propVars, mergeVars, cmpVars>>

None == "None"

(***************************************************************************)
(* Bounds.                                                                 *)
(***************************************************************************)
\* constructions (copies included) are stopped once the counter passes this
MaxProps == 3

(***************************************************************************)
(* Column expressions.  A column carries its name, the ORM annotations it  *)
(* has picked up (a set of <<tag, value>> pairs) and its doc.              *)
(***************************************************************************)
NoAnnotations == {}

\* what stands for an attribute the object does not have
NoAttr == "AttributeError"

\* a table column
ColA ==
    [name |-> "a", table |-> "t", annotations |-> NoAnnotations,
     propagate_attrs |-> {}, doc |-> None, info |-> "{}"]

\* a table column that comes annotated by another mapping, with doc and info
ColB ==
    [name |-> "b", table |-> "t",
     annotations |-> {<<"parententity", "Mapper|Other">>},
     propagate_attrs |-> {}, doc |-> "doc of b", info |-> "{'b': 1}"]

\* a labeled SQL expression: it has no info
ColE ==
    [name |-> "e", table |-> "t", annotations |-> NoAnnotations,
     propagate_attrs |-> {}, doc |-> None, info |-> NoAttr]

\* the positional arguments the constructor is called with
ColumnLists == {<<ColA>>, <<ColA, ColB>>, <<ColB, ColA>>}

\* orm.util._orm_full_deannotate: the expression with every annotation stripped
_orm_full_deannotate(c) == [c EXCEPT !.annotations = NoAnnotations]

\* coercions.expect(roles.LabeledColumnExprRole, c): a column expression is
\* already in that role and is returned as it is
expect(c) == c

(***************************************************************************)
(* Keyword arguments.  kwargs is a function from the keys passed to their  *)
(* values.                                                                 *)
(***************************************************************************)
RecognizedKeys ==
    {"group", "deferred", "raiseload", "_instrument", "comparator_factory",
     "descriptor", "active_history", "expire_on_flush", "info", "doc"}

UnrecognizedKeys == {"lazy", "defer", "instrument"}

\* every key of the model, in the order Python's str comparison gives them
KeyOrder ==
    <<"_instrument", "active_history", "comparator_factory", "defer",
      "deferred", "descriptor", "doc", "expire_on_flush", "group", "info",
      "instrument", "lazy", "raiseload">>

KeyIndex(k) == CHOOSE i \in 1..Len(KeyOrder) : KeyOrder[i] = k

\* a < b on Python strings
StrLess(a, b) == KeyIndex(a) < KeyIndex(b)

\* the value a key is passed with (the one that is not its default)
KwValue(k) ==
    CASE k = "group" -> "g1"
      [] k = "deferred" -> TRUE
      [] k = "raiseload" -> TRUE
      [] k = "_instrument" -> FALSE
      [] k = "comparator_factory" -> "CustomComparator"
      [] k = "descriptor" -> "descr"
      [] k = "active_history" -> TRUE
      [] k = "expire_on_flush" -> FALSE
      [] k = "info" -> "{'k': 1}"
      [] k = "doc" -> "kwdoc"
      [] OTHER -> "v"

\* the key sets the constructor is called with: up to two recognized
\* options, or up to one together with any set of unrecognized ones
KwargKeySets ==
    {g \cup b : <<g, b>> \in
        {<<g, b>> \in (SUBSET RecognizedKeys) \X (SUBSET UnrecognizedKeys) :
            /\ Cardinality(g) <= 2
            /\ b # {} => Cardinality(g) <= 1}}

MakeKwargs(keys) == [k \in keys |-> KwValue(k)]

\* dict.pop(key, default): the value, and the dict without the key
pop(kwargs, key, default) ==
    [value |-> IF key \in DOMAIN kwargs THEN kwargs[key] ELSE default,
     kwargs |-> [k \in (DOMAIN kwargs) \ {key} |-> kwargs[k]]]

RECURSIVE sorted(_)
\* sorted(keys): the keys as a list in ascending order
sorted(S) ==
    IF S = {} THEN <<>>
    ELSE LET m == CHOOSE x \in S : \A y \in S : x = y \/ StrLess(x, y)
         IN <<m>> \o sorted(S \ {m})

RECURSIVE join(_, _)
\* sep.join(seq)
join(sep, seq) ==
    IF Len(seq) = 0 THEN ""
    ELSE IF Len(seq) = 1 THEN seq[1]
    ELSE seq[1] \o sep \o join(sep, Tail(seq))

(***************************************************************************)
(* ColumnProperty.__init__                                                 *)
(***************************************************************************)
\* "no object": what a name is bound to when the call that would have
\* produced the object raised, and the "no exception" of a call that returned
Null == [null |-> TRUE]

ClassName == "ColumnProperty"

\* the comparator_factory default, self.__class__.Comparator
Comparator == "ColumnProperty.Comparator"

\* MapperProperty.info when the constructor was given none: an empty dict
DefaultInfo == "{}"

\* a variant that reports the first offending key alone
UnexpectedKeywordsFirstOnly(cls, kwargs) ==
    [type |-> "TypeError",
     msg |-> cls \o " received unexpected keyword argument(s): "
                 \o sorted(DOMAIN kwargs)[1]]

\* the TypeError raised for the keys left in kwargs
UnexpectedKeywords(cls, kwargs) ==
    [type |-> "TypeError",
     msg |-> cls \o " received unexpected keyword argument(s): "
                 \o join(", ", sorted(DOMAIN kwargs))]

RECURSIVE DocOfColumns(_)
\* the doc of the last column that has one, else None
DocOfColumns(columns) ==
    IF Len(columns) = 0 THEN None
    ELSE LET col == columns[Len(columns)]
         IN IF col.doc # None THEN col.doc
            ELSE DocOfColumns(SubSeq(columns, 1, Len(columns) - 1))

\* util.set_creation_order(instance): the value the instance gets, and the
\* counter after it
set_creation_order(counter) == [value |-> counter, counter |-> counter + 1]

\* a variant that appends the raiseload entry whatever raiseload is
StrategyKeyAlwaysRaiseload(deferred, instrument, raiseload) ==
    <<<<"deferred", deferred>>, <<"instrument", instrument>>,
      <<"raiseload", raiseload>>>>

\* self.strategy_key
StrategyKey(deferred, instrument, raiseload) ==
    LET base == <<<<"deferred", deferred>>, <<"instrument", instrument>>>>
    IN IF raiseload THEN base \o <<<<"raiseload", TRUE>>>> ELSE base

\* the keys __init__ pops from kwargs
PoppedKeys ==
    {"group", "deferred", "raiseload", "_instrument", "comparator_factory",
     "descriptor", "active_history", "expire_on_flush", "info", "doc"}

\* ColumnProperty(*columns, **kwargs) with the counter at `counter`: the
\* exception raised (or Null), the object (or Null) and the counter afterwards
__init__(columns, kwargs, counter) ==
    LET _orig_columns == [i \in 1..Len(columns) |-> expect(columns[i])]
        cols == [i \in 1..Len(columns) |->
                    expect(_orm_full_deannotate(columns[i]))]
        group == pop(kwargs, "group", None).value
        deferred == pop(kwargs, "deferred", FALSE).value
        raiseload == pop(kwargs, "raiseload", FALSE).value
        instrument == pop(kwargs, "_instrument", TRUE).value
        comparator_factory ==
            pop(kwargs, "comparator_factory", Comparator).value
        descriptor == pop(kwargs, "descriptor", None).value
        active_history == pop(kwargs, "active_history", FALSE).value
        expire_on_flush == pop(kwargs, "expire_on_flush", TRUE).value
        info == IF "info" \in DOMAIN kwargs
                THEN pop(kwargs, "info", DefaultInfo).value
                ELSE DefaultInfo
        doc == IF "doc" \in DOMAIN kwargs
               THEN pop(kwargs, "doc", None).value
               ELSE DocOfColumns(cols)
        \* kwargs after the pops above
        rest == [k \in (DOMAIN kwargs) \ PoppedKeys |-> kwargs[k]]
        order == set_creation_order(counter)
    IN IF DOMAIN rest # {}
       THEN [raised |-> UnexpectedKeywords(ClassName, rest),
             self |-> Null,
             counter |-> counter]
       ELSE [raised |-> Null,
             self |-> [_orig_columns |-> _orig_columns,
                       columns |-> cols,
                       group |-> group,
                       deferred |-> deferred,
                       raiseload |-> raiseload,
                       instrument |-> instrument,
                       comparator_factory |-> comparator_factory,
                       descriptor |-> descriptor,
                       active_history |-> active_history,
                       expire_on_flush |-> expire_on_flush,
                       info |-> info,
                       doc |-> doc,
                       strategy_key |->
                           StrategyKey(deferred, instrument, raiseload),
                       _creation_order |-> order.value],
             counter |-> order.counter]

\* the keyword arguments copy() passes on
CopyKwargs(self) ==
    [k \in {"deferred", "group", "active_history"} |->
        CASE k = "deferred" -> self.deferred
          [] k = "group" -> self.group
          [] k = "active_history" -> self.active_history]

\* a variant that forgets to pass group on
copyWithoutGroup(self, counter) ==
    __init__(self.columns,
             [k \in {"deferred", "active_history"} |-> CopyKwargs(self)[k]],
             counter)

\* a variant that hands back a field-for-field duplicate, made without
\* running the constructor
copyShallow(self, counter) ==
    [raised |-> Null, self |-> self, counter |-> counter]

\* ColumnProperty.copy()
copy(self, counter) == __init__(self.columns, CopyKwargs(self), counter)

(***************************************************************************)
(* ColumnProperty.merge                                                    *)
(***************************************************************************)
\* attribute names and values of the merged objects; the property's key is "x"
AttrKeys == {"x", "y"}

AttrValues == {5, 7}

\* the value maps: any of the keys present, each with any of the values
Dicts == UNION {[ks -> AttrValues] : ks \in SUBSET AttrKeys}

\* dict_[key] = value
SetItem(dict_, key, value) ==
    [k \in (DOMAIN dict_) \cup {key} |-> IF k = key THEN value ELSE dict_[k]]

\* dict_.pop(key, NO_VALUE), for its effect on the dict
DelItem(dict_, key) == [k \in (DOMAIN dict_) \ {key} |-> dict_[k]]

\* the records of the calls merge() makes on the destination
DictWrite(key, value) ==
    [fn |-> "dest_dict.__setitem__", key |-> key, value |-> value]

ImplSetCall(key, value) ==
    [fn |-> "impl.set", impl |-> key, state |-> "dest_state",
     dict_ |-> "dest_dict", value |-> value, initiator |-> None]

ExpireCall(keys, no_loader) ==
    [fn |-> "dest_state._expire_attributes", dict_ |-> "dest_dict",
     keys |-> keys, no_loader |-> no_loader]

\* ScalarAttributeImpl.set(state, dict_, value, initiator): the change is
\* recorded against the state and the value stored
ImplSet(state, dict_, key, value) ==
    [state |-> [state EXCEPT !.modified = TRUE,
                             !.committed_state = @ \cup {key}],
     dict_ |-> SetItem(dict_, key, value)]

\* InstanceState._expire_attributes(dict_, [key], no_loader): the key is
\* marked expired and its value and history dropped; with no_loader a key
\* that has a loader callable is not marked
ExpireAttributes(state, dict_, key, no_loader) ==
    [state |-> [state EXCEPT
                   !.expired_attributes =
                       IF no_loader /\ key \in state.callables
                       THEN @ ELSE @ \cup {key},
                   !.committed_state = @ \ {key}],
     dict_ |-> DelItem(dict_, key)]

\* a variant that writes the destination dict whatever load is
mergeAlwaysDirect(self, source_dict, state, dict_, load) ==
    IF ~self.instrument
    THEN [state |-> state, dict_ |-> dict_, calls |-> <<>>]
    ELSE IF self.key \in DOMAIN source_dict
    THEN [state |-> state,
          dict_ |-> SetItem(dict_, self.key, source_dict[self.key]),
          calls |-> <<DictWrite(self.key, source_dict[self.key])>>]
    ELSE IF state.has_identity /\ self.key \notin DOMAIN dict_
    THEN LET e == ExpireAttributes(state, dict_, self.key, TRUE)
         IN [state |-> e.state, dict_ |-> e.dict_,
             calls |-> <<ExpireCall(<<self.key>>, TRUE)>>]
    ELSE [state |-> state, dict_ |-> dict_, calls |-> <<>>]

\* a variant that goes through impl.set whatever load is
mergeAlwaysSet(self, source_dict, state, dict_, load) ==
    IF ~self.instrument
    THEN [state |-> state, dict_ |-> dict_, calls |-> <<>>]
    ELSE IF self.key \in DOMAIN source_dict
    THEN LET r == ImplSet(state, dict_, self.key, source_dict[self.key])
         IN [state |-> r.state, dict_ |-> r.dict_,
             calls |-> <<ImplSetCall(self.key, source_dict[self.key])>>]
    ELSE IF state.has_identity /\ self.key \notin DOMAIN dict_
    THEN LET e == ExpireAttributes(state, dict_, self.key, TRUE)
         IN [state |-> e.state, dict_ |-> e.dict_,
             calls |-> <<ExpireCall(<<self.key>>, TRUE)>>]
    ELSE [state |-> state, dict_ |-> dict_, calls |-> <<>>]

\* a variant that expires the key whenever the source lacks it and the
\* destination is persistent, without looking at the destination dict
mergeExpireUnchecked(self, source_dict, state, dict_, load) ==
    IF ~self.instrument
    THEN [state |-> state, dict_ |-> dict_, calls |-> <<>>]
    ELSE IF self.key \in DOMAIN source_dict
    THEN IF ~load
         THEN [state |-> state,
               dict_ |-> SetItem(dict_, self.key, source_dict[self.key]),
               calls |-> <<DictWrite(self.key, source_dict[self.key])>>]
         ELSE LET r == ImplSet(state, dict_, self.key, source_dict[self.key])
              IN [state |-> r.state, dict_ |-> r.dict_,
                  calls |-> <<ImplSetCall(self.key, source_dict[self.key])>>]
    ELSE IF state.has_identity
    THEN LET e == ExpireAttributes(state, dict_, self.key, TRUE)
         IN [state |-> e.state, dict_ |-> e.dict_,
             calls |-> <<ExpireCall(<<self.key>>, TRUE)>>]
    ELSE [state |-> state, dict_ |-> dict_, calls |-> <<>>]

\* a variant without the instrument check
mergeUninstrumented(self, source_dict, state, dict_, load) ==
    IF self.key \in DOMAIN source_dict
    THEN IF ~load
         THEN [state |-> state,
               dict_ |-> SetItem(dict_, self.key, source_dict[self.key]),
               calls |-> <<DictWrite(self.key, source_dict[self.key])>>]
         ELSE LET r == ImplSet(state, dict_, self.key, source_dict[self.key])
              IN [state |-> r.state, dict_ |-> r.dict_,
                  calls |-> <<ImplSetCall(self.key, source_dict[self.key])>>]
    ELSE IF state.has_identity /\ self.key \notin DOMAIN dict_
    THEN LET e == ExpireAttributes(state, dict_, self.key, TRUE)
         IN [state |-> e.state, dict_ |-> e.dict_,
             calls |-> <<ExpireCall(<<self.key>>, TRUE)>>]
    ELSE [state |-> state, dict_ |-> dict_, calls |-> <<>>]

\* self.merge(session, source_state, source_dict, dest_state, dest_dict,
\* load, _recursive, _resolve_conflict_map): the destination state and dict
\* afterwards, and the calls made on the destination
merge(self, source_dict, state, dict_, load) ==
    IF ~self.instrument
    THEN [state |-> state, dict_ |-> dict_, calls |-> <<>>]
    ELSE IF self.key \in DOMAIN source_dict
    THEN LET value == source_dict[self.key]
         IN IF ~load
            THEN [state |-> state,
                  dict_ |-> SetItem(dict_, self.key, value),
                  calls |-> <<DictWrite(self.key, value)>>]
            ELSE LET r == ImplSet(state, dict_, self.key, value)
                 IN [state |-> r.state, dict_ |-> r.dict_,
                     calls |-> <<ImplSetCall(self.key, value)>>]
    ELSE IF state.has_identity /\ self.key \notin DOMAIN dict_
    THEN LET e == ExpireAttributes(state, dict_, self.key, TRUE)
         IN [state |-> e.state, dict_ |-> e.dict_,
             calls |-> <<ExpireCall(<<self.key>>, TRUE)>>]
    ELSE [state |-> state, dict_ |-> dict_, calls |-> <<>>]

NoState ==
    [has_identity |-> FALSE, modified |-> FALSE, committed_state |-> {},
     expired_attributes |-> {}, callables |-> {}]

NoMerge ==
    [done |-> FALSE, source_dict |-> <<>>, load |-> FALSE,
     dest_dict |-> <<>>, dest_state |-> NoState]

\* the merge variables of a process that merges nothing
MergeIdle ==
    /\ merge_prop = [key |-> "x", instrument |-> TRUE]
    /\ dest_dict = <<>>
    /\ dest_state = NoState
    /\ calls = <<>>
    /\ merged = NoMerge

(***************************************************************************)
(* ColumnProperty.Comparator                                               *)
(***************************************************************************)
\* the names of the memoized slots
Slots == {"__clause_element__", "info", "expressions"}

\* the entity the comparator's columns are annotated with
ParentEntity == "Mapper|User"

\* the adapter of an aliased entity, AliasedInsp._adapt_element(col, key):
\* the column of the alias, tagged with the key it is a proxy for
Adapter(col, key) ==
    [col EXCEPT !.table = "alias",
                !.annotations = @ \cup {<<"proxy_key", key>>}]

\* the parent mapper's _polymorphic_adapter.traverse(col): the column of
\* the polymorphic selectable
PolymorphicTraverse(col) == [col EXCEPT !.table = "poly"]

\* col._annotate(values): the column with the annotations merged in, a
\* tag given anew replacing the one it had
_annotate(col, values) ==
    [col EXCEPT !.annotations =
        {a \in @ : \A v \in values : v[1] # a[1]} \cup values]

\* col._set_propagate_attrs(values)
_set_propagate_attrs(col, values) == [col EXCEPT !.propagate_attrs = values]

\* Comparator._orm_annotate_column(column)
_orm_annotate_column(self, column) ==
    LET pe == self._parententity
        annotations == {<<"entity_namespace", pe>>, <<"parententity", pe>>,
                        <<"parentmapper", pe>>, <<"orm_key", self.prop.key>>}
        mapper_local_col == column
        col == IF self._polymorphic_adapter
               THEN PolymorphicTraverse(column) ELSE column
        all == IF self._polymorphic_adapter
               THEN annotations \cup
                    {<<"adapt_column",
                       mapper_local_col.table \o "." \o mapper_local_col.name>>}
               ELSE annotations
    IN _set_propagate_attrs(
           _annotate(col, all),
           {<<"compile_state_plugin", "orm">>, <<"plugin_subject", pe>>})

\* a variant that annotates what the adapter returned
clauseElementAnnotatesAdapted(self) ==
    IF self.adapter # None
    THEN _orm_annotate_column(self, Adapter(self.prop.columns[1], self.prop.key))
    ELSE _orm_annotate_column(self, self.prop.columns[1])

\* Comparator._memoized_method___clause_element__
_memoized_method___clause_element__(self) ==
    IF self.adapter # None
    THEN Adapter(self.prop.columns[1], self.prop.key)
    ELSE _orm_annotate_column(self, self.prop.columns[1])

\* util.MemoizedSlots: the slot's value if it is filled; else the value
\* computed now, which fills the slot.  The result is the object afterwards,
\* the value, and the fields computed on the way.
Memoized(self, slot, value, ran) ==
    IF slot \in DOMAIN self.slots
    THEN [self |-> self, value |-> self.slots[slot], ran |-> <<>>]
    ELSE [self |-> [self EXCEPT !.slots =
                       [k \in (DOMAIN self.slots) \cup {slot} |->
                           IF k = slot THEN value ELSE self.slots[k]]],
          value |-> value,
          ran |-> ran \o <<[slot |-> slot, value |-> value]>>]

\* self.__clause_element__()
__clause_element__(self) ==
    Memoized(self, "__clause_element__",
             _memoized_method___clause_element__(self), <<>>)

\* Comparator._memoized_attr_info, on the object __clause_element__() left
_memoized_attr_info(ce, self) == IF ce.info # NoAttr THEN ce.info ELSE self.prop.info

\* self.info
info(self) ==
    IF "info" \in DOMAIN self.slots
    THEN Memoized(self, "info", self.slots["info"], <<>>)
    ELSE LET ce == __clause_element__(self)
         IN Memoized(ce.self, "info",
                     _memoized_attr_info(ce.value, ce.self), ce.ran)

\* Comparator._memoized_attr_expressions
_memoized_attr_expressions(self) ==
    IF self.adapter # None
    THEN [i \in 1..Len(self.prop.columns) |->
             Adapter(self.prop.columns[i], self.prop.key)]
    ELSE [i \in 1..Len(self.prop.columns) |->
             _orm_annotate_column(self, self.prop.columns[i])]

\* self.expressions
expressions(self) ==
    Memoized(self, "expressions", _memoized_attr_expressions(self), <<>>)

\* Comparator._fallback_getattr(key)
_fallback_getattr(self, key) ==
    LET ce == __clause_element__(self)
    IN [self |-> ce.self, value |-> ce.value[key], ran |-> ce.ran]

\* a variant that works the clause element out anew on every call
operateUnmemoized(self, op, other) ==
    LET value == _memoized_method___clause_element__(self)
    IN [self |-> self,
        value |-> [op |-> op, args |-> <<value, other>>],
        ran |-> <<[slot |-> "__clause_element__", value |-> value]>>]

\* Comparator.operate(op, other)
operate(self, op, other) ==
    LET ce == __clause_element__(self)
    IN [self |-> ce.self,
        value |-> [op |-> op, args |-> <<ce.value, other>>],
        ran |-> ce.ran]

\* col._bind_param(op, other): a bound parameter typed against the column
_bind_param(col, op, other) ==
    [bindparam |-> other, type_of |-> col.name, operator |-> op]

\* Comparator.reverse_operate(op, other)
reverse_operate(self, op, other) ==
    LET ce == __clause_element__(self)
        col == ce.value
    IN [self |-> ce.self,
        value |-> [op |-> op, args |-> <<_bind_param(col, op, other), col>>],
        ran |-> ce.ran]

NoComparator ==
    [prop |-> [key |-> "x", columns |-> <<>>, info |-> DefaultInfo],
     adapter |-> None, _parententity |-> ParentEntity,
     _polymorphic_adapter |-> FALSE, slots |-> <<>>]

NotComputed == [s \in Slots |-> 0]

\* the comparator variables of a process that uses no comparator
ComparatorIdle ==
    /\ cmp = NoComparator
    /\ computed = NotComputed
    /\ first = <<>>
    /\ returned = [call |-> "none"]

(***************************************************************************)
(* The process: properties are constructed and copied one after another.   *)
(***************************************************************************)
NoCall ==
    [op |-> "none", columns |-> <<>>, kwargs |-> MakeKwargs({}),
     orig |-> Null, raised |-> Null, counter |-> 0]

PropertyStart ==
    /\ prop = Null
    /\ last = NoCall
    /\ _creation_order = 1
    /\ created = <<>>

InitProperty == PropertyStart /\ MergeIdle /\ ComparatorIdle

\* p = ColumnProperty(*columns, **kwargs)
Construct ==
    /\ _creation_order <= MaxProps
    /\ UNCHANGED <<mergeVars, cmpVars>>
    /\ \E columns \in ColumnLists, keys \in KwargKeySets :
          \E kwargs \in {MakeKwargs(keys)} :
          \E r \in {__init__(columns, kwargs, _creation_order)} :
             /\ prop' = r.self
             /\ _creation_order' = r.counter
             /\ created' = IF r.raised = Null
                           THEN Append(created, r.self._creation_order)
                           ELSE created
             /\ last' = [op |-> "init", columns |-> columns,
                         kwargs |-> kwargs, orig |-> Null,
                         raised |-> r.raised, counter |-> _creation_order]

\* p = p.copy()
Copy ==
    /\ _creation_order <= MaxProps
    /\ UNCHANGED <<mergeVars, cmpVars>>
    /\ prop # Null
    /\ \E r \in {copy(prop, _creation_order)} :
          /\ prop' = r.self
          /\ _creation_order' = r.counter
          /\ created' = IF r.raised = Null
                        THEN Append(created, r.self._creation_order)
                        ELSE created
          /\ last' = [op |-> "copy", columns |-> prop.columns,
                      kwargs |-> MakeKwargs({}), orig |-> prop,
                      raised |-> r.raised, counter |-> _creation_order]

NextProperty == Construct \/ Copy

SpecProperty == InitProperty /\ [][NextProperty]_vars

(***************************************************************************)
(* The session: one destination object, merged into again and again from   *)
(* source objects in any state.                                            *)
(***************************************************************************)
InitMerge ==
    /\ PropertyStart
    /\ \E instrument \in BOOLEAN :
          merge_prop = [key |-> "x", instrument |-> instrument]
    /\ dest_dict \in Dicts
    /\ \E has_identity \in BOOLEAN, callables \in {{}, {"x"}} :
          dest_state = [NoState EXCEPT !.has_identity = has_identity,
                                       !.callables = callables]
    /\ calls = <<>>
    /\ merged = NoMerge
    /\ ComparatorIdle

\* prop.merge(session, source_state, source_dict, dest_state, dest_dict, load, ...)
Merge ==
    /\ \E source_dict \in Dicts, load \in BOOLEAN :
       \E r \in {merge(merge_prop, source_dict, dest_state, dest_dict, load)} :
          /\ dest_dict' = r.dict_
          /\ dest_state' = r.state
          /\ calls' = r.calls
          /\ merged' = [done |-> TRUE, source_dict |-> source_dict,
                        load |-> load, dest_dict |-> dest_dict,
                        dest_state |-> dest_state]
    /\ UNCHANGED <<merge_prop, propVars, cmpVars>>

NextMerge == Merge

SpecMerge == InitMerge /\ [][NextMerge]_vars

(***************************************************************************)
(* One Comparator, used in any order through its memoized fields, its      *)
(* operators and its attribute fallback.                                   *)
(***************************************************************************)
\* the columns of the owning property, as the constructor stores them
ComparatorColumnLists ==
    {[i \in 1..Len(cs) |-> expect(_orm_full_deannotate(cs[i]))] :
        cs \in {<<ColA>>, <<ColE>>, <<ColA, ColB>>, <<ColB, ColE>>}}

Operators == {"eq", "lt"}

Operands == {5}

\* the attributes the fallback is asked for
FallbackKeys == {"name", "table"}

InitComparator ==
    /\ PropertyStart
    /\ MergeIdle
    /\ \E columns \in ComparatorColumnLists,
          pinfo \in {DefaultInfo, "{'k': 1}"},
          adapter \in {None, "_adapt_element"},
          polymorphic \in BOOLEAN :
          cmp = [prop |-> [key |-> "x", columns |-> columns, info |-> pinfo],
                 adapter |-> adapter,
                 _parententity |-> ParentEntity,
                 _polymorphic_adapter |-> polymorphic,
                 slots |-> <<>>]
    /\ computed = NotComputed
    /\ first = <<>>
    /\ returned = [call |-> "none"]

\* the bookkeeping of a call on cmp that ended as r
Called(call, r) ==
    /\ cmp' = r.self
    /\ returned' = [call |-> call, value |-> r.value]
    /\ computed' = [s \in Slots |->
          computed[s] + Cardinality({i \in 1..Len(r.ran) : r.ran[i].slot = s})]
    /\ first' =
          LET new == {r.ran[i].slot : i \in 1..Len(r.ran)} \ DOMAIN first
          IN [s \in (DOMAIN first) \cup new |->
                IF s \in DOMAIN first THEN first[s]
                ELSE r.ran[CHOOSE i \in 1..Len(r.ran) : r.ran[i].slot = s].value]
    /\ UNCHANGED <<propVars, mergeVars>>

\* cmp.__clause_element__()
CallClauseElement ==
    \E r \in {__clause_element__(cmp)} : Called("__clause_element__", r)

\* cmp.info
GetInfo == \E r \in {info(cmp)} : Called("info", r)

\* cmp.expressions
GetExpressions == \E r \in {expressions(cmp)} : Called("expressions", r)

\* cmp.operate(op, other)
Operate ==
    \E op \in Operators, other \in Operands :
    \E r \in {operate(cmp, op, other)} : Called("operate", r)

\* cmp.reverse_operate(op, other)
ReverseOperate ==
    \E op \in Operators, other \in Operands :
    \E r \in {reverse_operate(cmp, op, other)} : Called("reverse_operate", r)

\* getattr(cmp, key) for a key the comparator does not have
FallbackGetattr ==
    \E key \in FallbackKeys :
    \E r \in {_fallback_getattr(cmp, key)} : Called("_fallback_getattr", r)

NextComparator ==
    \/ CallClauseElement
    \/ GetInfo
    \/ GetExpressions
    \/ Operate
    \/ ReverseOperate
    \/ FallbackGetattr

SpecComparator == InitComparator /\ [][NextComparator]_vars

(***************************************************************************)
(* Properties of construction and copy(), checked under SpecProperty.      *)
(***************************************************************************)
CopyReturned == last.op = "copy" /\ last.raised = Null

\* what copy() keeps, and what it leaves at the constructor's defaults,
\* apart from deferred
CopyKeepsAndResets ==
    /\ prop.columns = last.orig.columns
    /\ prop.group = last.orig.group
    /\ prop.active_history = last.orig.active_history
    /\ prop.raiseload = FALSE
    /\ prop.instrument = TRUE
    /\ prop.comparator_factory = Comparator
    /\ prop.descriptor = None
    /\ prop.expire_on_flush = TRUE
    /\ prop.info = DefaultInfo

\* C5 as stated: copy() returns a property with the same columns, group and
\* active_history and every other option at its default, deferred = False
\* included, whatever the original's deferred was.
C5_CopyResetsDeferred ==
    CopyReturned => CopyKeepsAndResets /\ prop.deferred = FALSE

\* C5 amended: copy() returns a property with the same columns, group,
\* active_history and deferred as the original, and every other option
\* (raiseload, instrument, comparator_factory, descriptor, expire_on_flush,
\* info) at its default.
C5_CopyKeepsDeferred ==
    CopyReturned => CopyKeepsAndResets /\ prop.deferred = last.orig.deferred

\* a copy of a deferred property that is in a group
C5_Witness ==
    /\ CopyReturned
    /\ last.orig.deferred = TRUE
    /\ last.orig.group = "g1"
    /\ Len(last.orig.columns) = 2

\* C6: the _creation_order values of the properties constructed so far are
\* strictly increasing in construction order, the counter is above every
\* value handed out, and a call never lowers the counter (one that raised
\* leaves it where it was).
C6_CreationOrderIncreasing ==
    /\ \A i, j \in 1..Len(created) : i < j => created[i] < created[j]
    /\ \A i \in 1..Len(created) : created[i] < _creation_order
    /\ last.op # "none" => last.counter <= _creation_order
    /\ (last.op # "none" /\ last.raised # Null) =>
           _creation_order = last.counter

\* three properties exist, the last of them made by copy()
C6_Witness ==
    /\ Len(created) >= 3
    /\ last.op = "copy"

\* a construction that failed after two had succeeded
C6_WitnessFailed ==
    /\ Len(created) >= 2
    /\ last.op = "init"
    /\ last.raised # Null

\* the unrecognized keys of the model in ascending order
UnrecognizedAscending == <<"defer", "instrument", "lazy">>

BadKeysPassed == (DOMAIN last.kwargs) \ RecognizedKeys

\* C7: a construction given unrecognized keyword options raises one
\* TypeError whose message lists every unrecognized key in ascending order,
\* whichever recognized options came with them; no property results.
C7_UnexpectedKeywordsListed ==
    (last.op = "init" /\ BadKeysPassed # {}) =>
        /\ last.raised # Null
        /\ last.raised.type = "TypeError"
        /\ last.raised.msg =
              "ColumnProperty received unexpected keyword argument(s): "
              \o join(", ", SelectSeq(UnrecognizedAscending,
                                      LAMBDA k : k \in BadKeysPassed))
        /\ prop = Null

\* three unrecognized keys passed together with a recognized one
C7_Witness ==
    /\ last.op = "init"
    /\ BadKeysPassed = UnrecognizedKeys
    /\ (DOMAIN last.kwargs) \cap RecognizedKeys # {}
    /\ last.raised # Null

\* the option a successful construction was given, or its default
OptionGiven(key, default) ==
    IF key \in DOMAIN last.kwargs THEN last.kwargs[key] ELSE default

\* C8: after a successful construction strategy_key is (("deferred",
\* deferred), ("instrument", instrument)), followed by ("raiseload", True)
\* exactly when raiseload is true.
C8_StrategyKey ==
    (last.op = "init" /\ last.raised = Null) =>
        LET deferred == OptionGiven("deferred", FALSE)
            instrument == OptionGiven("_instrument", TRUE)
            raiseload == OptionGiven("raiseload", FALSE)
        IN /\ prop.deferred = deferred
           /\ prop.instrument = instrument
           /\ prop.raiseload = raiseload
           /\ Len(prop.strategy_key) = IF raiseload THEN 3 ELSE 2
           /\ prop.strategy_key[1] = <<"deferred", deferred>>
           /\ prop.strategy_key[2] = <<"instrument", instrument>>
           /\ raiseload => prop.strategy_key[3] = <<"raiseload", TRUE>>
           /\ (~deferred /\ instrument /\ ~raiseload) =>
                  prop.strategy_key =
                      <<<<"deferred", FALSE>>, <<"instrument", TRUE>>>>

\* a deferred property constructed with raiseload
C8_Witness ==
    /\ last.op = "init"
    /\ last.raised = Null
    /\ prop.raiseload
    /\ prop.deferred
    /\ Len(prop.strategy_key) = 3

(***************************************************************************)
(* Properties of merge(), checked under SpecMerge.                         *)
(***************************************************************************)
MergeKey == merge_prop.key

SourceHasKey == MergeKey \in DOMAIN merged.source_dict

CallsNamed(fn) == {i \in 1..Len(calls) : calls[i].fn = fn}

\* every key but the property's own is as it was before the merge
OtherKeysKept ==
    /\ (DOMAIN dest_dict) \ {MergeKey} = (DOMAIN merged.dest_dict) \ {MergeKey}
    /\ \A k \in (DOMAIN dest_dict) \ {MergeKey} :
          dest_dict[k] = merged.dest_dict[k]

\* C1: instrument true, the key in the source dict, load false: the source
\* value is written straight into the destination dict, and neither
\* impl.set nor _expire_attributes is called, whatever the value and
\* whatever the destination held before.
C1_DirectWriteWhenNotLoad ==
    (merged.done /\ merge_prop.instrument /\ SourceHasKey /\ ~merged.load) =>
        /\ MergeKey \in DOMAIN dest_dict
        /\ dest_dict[MergeKey] = merged.source_dict[MergeKey]
        /\ calls = <<DictWrite(MergeKey, merged.source_dict[MergeKey])>>
        /\ CallsNamed("impl.set") = {}
        /\ CallsNamed("dest_state._expire_attributes") = {}
        /\ dest_state = merged.dest_state
        /\ OtherKeysKept

\* the destination held 7 and the source's 5 was merged without a load
C1_Witness ==
    /\ merged.done /\ merge_prop.instrument /\ ~merged.load
    /\ SourceHasKey /\ merged.source_dict[MergeKey] = 5
    /\ MergeKey \in DOMAIN merged.dest_dict
    /\ merged.dest_dict[MergeKey] = 7
    /\ dest_dict[MergeKey] = 5

\* C2: instrument true, the key in the source dict, load true: impl.set of
\* the destination's attribute implementation for the key is called exactly
\* once, with the destination state, the destination dict and the source
\* value; merge writes nothing into the dict itself and expires nothing.
C2_ImplSetWhenLoad ==
    (merged.done /\ merge_prop.instrument /\ SourceHasKey /\ merged.load) =>
        /\ Cardinality(CallsNamed("impl.set")) = 1
        /\ \A i \in CallsNamed("impl.set") :
              /\ calls[i].impl = MergeKey
              /\ calls[i].state = "dest_state"
              /\ calls[i].dict_ = "dest_dict"
              /\ calls[i].value = merged.source_dict[MergeKey]
              /\ calls[i].initiator = None
        /\ CallsNamed("dest_dict.__setitem__") = {}
        /\ CallsNamed("dest_state._expire_attributes") = {}
        /\ OtherKeysKept

\* the source's 5 was merged with a load into a destination without the key
C2_Witness ==
    /\ merged.done /\ merge_prop.instrument /\ merged.load
    /\ SourceHasKey /\ merged.source_dict[MergeKey] = 5
    /\ MergeKey \notin DOMAIN merged.dest_dict
    /\ Len(calls) = 1

\* C3: instrument true and the key not in the source dict:
\* _expire_attributes is called, for [key] with no_loader=True, exactly when
\* the destination state has an identity and the destination dict lacks the
\* key too; whatever load is, nothing is written into the destination dict
\* and impl.set is not called, so a value the destination had is kept.
C3_ExpireWhenBothLack ==
    (merged.done /\ merge_prop.instrument /\ ~SourceHasKey) =>
        /\ CallsNamed("dest_state._expire_attributes") # {}
              <=> (/\ merged.dest_state.has_identity
                   /\ MergeKey \notin DOMAIN merged.dest_dict)
        /\ Cardinality(CallsNamed("dest_state._expire_attributes")) <= 1
        /\ \A i \in CallsNamed("dest_state._expire_attributes") :
              /\ calls[i].keys = <<MergeKey>>
              /\ calls[i].no_loader = TRUE
              /\ calls[i].dict_ = "dest_dict"
        /\ CallsNamed("dest_dict.__setitem__") = {}
        /\ CallsNamed("impl.set") = {}
        /\ dest_dict = merged.dest_dict

\* the key was expired on a persistent destination that lacked it
C3_Witness ==
    /\ merged.done /\ merge_prop.instrument /\ ~SourceHasKey
    /\ merged.dest_state.has_identity
    /\ MergeKey \notin DOMAIN merged.dest_dict
    /\ Len(calls) = 1
    /\ MergeKey \in dest_state.expired_attributes

\* a persistent destination kept the value it had
C3_WitnessKept ==
    /\ merged.done /\ merge_prop.instrument /\ ~SourceHasKey
    /\ merged.dest_state.has_identity
    /\ MergeKey \in DOMAIN dest_dict
    /\ calls = <<>>

\* C4: with instrument false merge() does nothing: the destination dict and
\* state are as they were and neither impl.set nor _expire_attributes is
\* called, for every source dict, destination dict, identity and load flag.
C4_NoOpWhenNotInstrumented ==
    (merged.done /\ ~merge_prop.instrument) =>
        /\ dest_dict = merged.dest_dict
        /\ dest_state = merged.dest_state
        /\ calls = <<>>

\* a merge with a load, from a source that has the key, on an
\* uninstrumented property
C4_Witness ==
    /\ merged.done /\ ~merge_prop.instrument
    /\ SourceHasKey /\ merged.load
    /\ MergeKey \notin DOMAIN dest_dict

\* an uninstrumented property, a persistent destination, the key nowhere
C4_WitnessExpirable ==
    /\ merged.done /\ ~merge_prop.instrument
    /\ ~SourceHasKey
    /\ dest_state.has_identity
    /\ MergeKey \notin DOMAIN dest_dict

(***************************************************************************)
(* Properties of the Comparator, checked under SpecComparator.             *)
(***************************************************************************)
\* the tags _orm_annotate_column puts on a column
OrmAnnotationTags ==
    {"entity_namespace", "parententity", "parentmapper", "orm_key",
     "adapt_column"}

TagsOf(col) == {a[1] : a \in col.annotations}

ClauseElementResolved == "__clause_element__" \in DOMAIN cmp.slots

\* C9: with an adapter bound __clause_element__() is exactly
\* adapter(prop.columns[0], prop.key): it carries none of the ORM annotations
\* and is not rewritten through the polymorphic adapter; with no adapter
\* bound it is prop.columns[0] annotated (and, under a polymorphic adapter,
\* rewritten through it and tagged with the column it came from).
C9_ClauseElement ==
    ClauseElementResolved =>
        LET ce == cmp.slots["__clause_element__"]
            col == cmp.prop.columns[1]
        IN /\ returned.call = "__clause_element__" => returned.value = ce
           /\ cmp.adapter # None =>
                 /\ ce = Adapter(col, cmp.prop.key)
                 /\ TagsOf(ce) \cap OrmAnnotationTags = {}
                 /\ ce.propagate_attrs = col.propagate_attrs
                 /\ ce.table # "poly"
           /\ cmp.adapter = None =>
                 /\ ce.name = col.name
                 /\ {<<"entity_namespace", ParentEntity>>,
                     <<"parententity", ParentEntity>>,
                     <<"parentmapper", ParentEntity>>,
                     <<"orm_key", cmp.prop.key>>} \subseteq ce.annotations
                 /\ ce.propagate_attrs =
                       {<<"compile_state_plugin", "orm">>,
                        <<"plugin_subject", ParentEntity>>}
                 /\ ce.table =
                       IF cmp._polymorphic_adapter THEN "poly" ELSE col.table
                 /\ "adapt_column" \in TagsOf(ce) <=> cmp._polymorphic_adapter

\* __clause_element__() was called on a comparator with an adapter bound,
\* its mapper having a polymorphic adapter
C9_Witness ==
    /\ returned.call = "__clause_element__"
    /\ cmp.adapter # None
    /\ cmp._polymorphic_adapter
    /\ ClauseElementResolved

\* __clause_element__() was called on a comparator with no adapter
C9_WitnessAnnotated ==
    /\ returned.call = "__clause_element__"
    /\ cmp.adapter = None
    /\ ClauseElementResolved

\* C10: each memoized field of a Comparator is computed at most once, its
\* slot then holds the value first computed, and every call that reads the
\* field (the field itself, operate, reverse_operate, the attribute
\* fallback) gets that value.
C10_ComputedOnce ==
    /\ \A s \in Slots :
          /\ computed[s] <= 1
          /\ computed[s] = 1 <=> s \in DOMAIN cmp.slots
          /\ s \in DOMAIN cmp.slots =>
                s \in DOMAIN first /\ cmp.slots[s] = first[s]
    /\ returned.call \in Slots => returned.value = first[returned.call]
    /\ returned.call = "operate" =>
          returned.value.args[1] = first["__clause_element__"]
    /\ returned.call = "reverse_operate" =>
          returned.value.args[2] = first["__clause_element__"]
    /\ returned.call = "_fallback_getattr" =>
          returned.value \in {first["__clause_element__"][k] : k \in FallbackKeys}

\* operate() called on a comparator whose three fields were all computed
\* by earlier calls
C10_Witness ==
    /\ returned.call = "operate"
    /\ DOMAIN cmp.slots = Slots
    /\ \A s \in Slots : computed[s] = 1

====
